---- MODULE Spec2Model ----
(***************************************************************************)
(* State-machine model of the xterm-mouse engine (src/src/core/Mouse.ts):  *)
(* the enable/disable lifecycle against the input source and output sink,  *)
(* the raw-data handler with click synthesis, and the deferred publication *)
(* of synthesized clicks, the subscriptions on the emitter, destroy(), and  *)
(* the lazy sequences of eventsOf()/stream() with their consumer.           *)
(*                                                                         *)
(* Optional values (null | v) are sequences: <<>> is null, <<v>> is v.     *)
(* written, emitted, errorsEmitted, failure and lastCall hold what the     *)
(* LAST step did (its writes, its publications, the collaborator that      *)
(* threw, its outcome), not a history; so do yielded and raised for the    *)
(* consumer's pull.                                                        *)
(***************************************************************************)
EXTENDS Integers, Sequences, FiniteSets, TLC

\* ------------------------------------------------------------------ bounds
MaxCoord == 2
MaxThreshold == 2
MaxChunk == 2
MaxQueue == 2
MaxErrors == 1
MaxSerial == 1
MaxOver == 1
MaxPublished == 3
MaxRun == 3

\* --------------------------------------------------------------- constants
\* The documented default of clickDistanceThreshold.
DefaultThreshold == 1

\* The hard ceiling of eventsOf's queue: Math.min(maxQueue, 1000).
QueueCeiling == 1000

Null == <<>>
Some(v) == <<v>>

Xs == 0..MaxCoord
Ys == 0..MaxCoord
Buttons == {"left"}
Encodings == {"utf8", "latin1"}

\* Events the decoder hands to the engine.  Coordinates only matter to the
\* engine for press and release; drag, wheel and move are republished as is.
DecodedEvents ==
    [action : {"press", "release"}, x : Xs, y : Ys, button : Buttons]
      \cup {[action |-> "drag", x |-> 0, y |-> 0, button |-> "left"],
            [action |-> "wheel", x |-> 0, y |-> 0, button |-> "wheel-up"],
            [action |-> "move", x |-> 0, y |-> 0, button |-> "none"]}

\* Chunks that decode to one event, over all of DecodedEvents, and chunks that
\* decode to several events, over one event of each kind the loop tells apart.
SingleChunks == {<<ev>> : ev \in DecodedEvents}

ChunkEvents ==
    {[action |-> "press", x |-> 0, y |-> 0, button |-> "left"],
     [action |-> "release", x |-> 0, y |-> 0, button |-> "left"],
     [action |-> "move", x |-> 0, y |-> 0, button |-> "none"]}

LongChunks == UNION {[1..n -> ChunkEvents] : n \in 2..MaxChunk}

\* The channels of the emitter the application subscribes to with on(): one
\* handler on 'press', one on 'release', one on 'error'.
Channels == {"press", "release", "error"}

\* The two groups of four control sequences written to the output sink.
ProtocolOn == "on"
ProtocolOff == "off"

VARIABLES
    enabled,                \* Mouse.enabled
    previousEncoding,       \* Mouse.previousEncoding (optional)
    previousRawMode,        \* Mouse.previousRawMode (optional)
    lastPress,              \* Mouse.lastPress (optional)
    paused,                 \* the pause flag of pause()/resume()/isPaused()
    clickDistanceThreshold, \* the clickDistanceThreshold option the caller constructs with
    isTTY,                  \* inputStream.isTTY
    isRaw,                  \* inputStream.isRaw
    readableEncoding,       \* inputStream.readableEncoding (optional)
    flowing,                \* inputStream resumed (TRUE) or paused (FALSE)
    dataListeners,          \* registrations of handleEvent on inputStream 'data'
    terminalMode,           \* the last protocol group the output sink received
    tickQueue,              \* process.nextTick callbacks not yet run (clicks)
    pressHistory,           \* history of the pending press with respect to pause()
    listeners,              \* channels of the emitter with a handler added by on()
    destroyed,              \* history: destroy() has been called
    seq,                    \* the lazy sequence of eventsOf()/stream(): its options,
                            \* the generator's position and its local variables
    arrivedSincePull,       \* history: the last matching event emitted since the
                            \* sequence was created or last pulled (optional)
    seqLog,                 \* history, kept by the logged steps: the matching events
                            \* published to the subscribed sequence, the items it
                            \* yielded, whether its queue overflowed
    parts,                  \* the chunk of the last parseMouseEvents call, as the
                            \* texts it is the concatenation of
    decoded,                \* the events that call yielded
    previousEmitted,        \* history: the data of the last event yielded by the calls
                            \* before it (optional)
    yielded,                \* what the last step delivered to the consumer's pull (optional)
    raised,                 \* the error the last step rejected the consumer's pull with (optional)
    written,                \* what the last step wrote to outputStream
    emitted,                \* what the last step emitted to event subscribers
    errorsEmitted,          \* what the last step emitted on the 'error' channel
    failure,                \* the collaborator call that threw in the last step (optional)
    lastCall                \* the last step and its outcome

engineVars == <<enabled, previousEncoding, previousRawMode>>
inputVars  == <<isRaw, readableEncoding, flowing, dataListeners>>
outputVars == <<terminalMode, written>>
eventVars  == <<lastPress, tickQueue, pressHistory>>
configVars == <<clickDistanceThreshold, isTTY>>

emitterVars == <<listeners, destroyed>>
seqVars    == <<seq, arrivedSincePull, seqLog>>
decoderVars == <<parts, decoded, previousEmitted>>

vars == <<engineVars, inputVars, outputVars, eventVars, configVars, emitterVars,
          seqVars, decoderVars, paused, emitted, errorsEmitted, yielded, raised, failure, lastCall>>

Call(op, outcome, cause) == [op |-> op, outcome |-> outcome, cause |-> cause]

\* A step that settles no pull of the lazy sequence.
NoPull == yielded' = Null /\ raised' = Null

\* A step that publishes nothing.
Silent == emitted' = <<>> /\ errorsEmitted' = <<>> /\ NoPull

\* No lazy sequence has been created.
NoSequence ==
    [pos |-> "none", kind |-> "eventsOf", type |-> "press", latestOnly |-> FALSE,
     maxQueue |-> 0, signal |-> "none", queue |-> <<>>, errorQueue |-> <<>>,
     latest |-> Null, resolveNext |-> FALSE, rejectNext |-> FALSE,
     subscribed |-> FALSE, abortListening |-> FALSE, returnPending |-> FALSE]

EmptyLog == [published |-> <<>>, yielded |-> <<>>, overflowed |-> FALSE]

\* const allEvents = ['press', 'release', 'drag', 'wheel', 'move', 'click']
AllEvents == {"press", "release", "drag", "wheel", "move", "click"}

\* The channels of the emitter the sequence s has handlers on.
SeqChannels(s) ==
    IF ~s.subscribed THEN {}
    ELSE IF s.kind = "stream" THEN AllEvents \cup {"error"}
    ELSE {s.type, "error"}

\* ------------------------------------------------------------------- Init
\* new Mouse(inputStream, outputStream, emitter, {clickDistanceThreshold})
Init ==
    /\ enabled = FALSE
    /\ previousEncoding = Null
    /\ previousRawMode = Null
    /\ lastPress = Null
    /\ paused = FALSE
    /\ clickDistanceThreshold \in 0..MaxThreshold
    /\ isTTY \in BOOLEAN
    /\ isRaw \in BOOLEAN
    /\ readableEncoding \in {Null} \cup {Some(e) : e \in Encodings}
    /\ flowing = FALSE
    /\ dataListeners = 0
    /\ terminalMode = ProtocolOff
    /\ tickQueue = <<>>
    /\ pressHistory = "none"
    /\ listeners = {}
    /\ destroyed = FALSE
    /\ seq = NoSequence
    /\ arrivedSincePull = Null
    /\ seqLog = EmptyLog
    /\ parts = <<>>
    /\ decoded = <<>>
    /\ previousEmitted = Null
    /\ yielded = Null
    /\ raised = Null
    /\ written = <<>>
    /\ emitted = <<>>
    /\ errorsEmitted = <<>>
    /\ failure = Null
    /\ lastCall = Call("new", "ok", Null)

\* ------------------------------------------------------ enable / disable
\* Failure points of the collaborators inside the try blocks: the output
\* sink's write() and the input source's setRawMode() throw an Error.
EnableFailures == {"none", "write", "setRawMode"}
DisableFailures == {"none", "setRawMode", "write"}

\* The Error the collaborator call named by fail throws.
Thrown(fail) == IF fail = "none" THEN Null ELSE Some(fail)

EnableIsNoopNever(en) == FALSE
\* if (this.enabled) return;
EnableIsNoop(en) == en

TTYCheckFailsNever(tty) == FALSE
\* if (!this.inputStream.isTTY) throw new Error(...)
TTYCheckFails(tty) == ~tty

EnabledAfterEnableFailureKept == TRUE
\* catch: this.enabled = false
EnabledAfterEnableFailure == FALSE

\* if (!this.enabled) return;
DisableIsNoop(en) == ~en

EnabledAfterDisableOnlyOnSuccess(failed) == failed
\* finally: this.enabled = false, whether or not the try block failed
EnabledAfterDisable(failed) == FALSE

OffDataSkipped(n) == n
\* this.inputStream.off('data', this.handleEvent): the first statement of the
\* try block of disable(), so it has run before any later call can throw
OffData(n) == IF n > 0 THEN n - 1 ELSE 0

\* new MouseError(message, err instanceof Error ? err : undefined) for the
\* Error thrown by the failing collaborator.
WrapInMouseError(op, err) == Call(op, "MouseError", err)

enableBody(fail) ==
    IF EnableIsNoop(enabled) THEN
        /\ fail = "none"
        /\ lastCall' = Call("enable", "noop", Null)
        /\ written' = <<>>
        /\ UNCHANGED <<engineVars, inputVars, terminalMode>>
    ELSE IF TTYCheckFails(isTTY) THEN
        /\ fail = "none"
        /\ lastCall' = Call("enable", "Error", Null)
        /\ written' = <<>>
        /\ UNCHANGED <<engineVars, inputVars, terminalMode>>
    ELSE
        /\ previousRawMode' = Some(isRaw)
        /\ previousEncoding' = readableEncoding
        /\ CASE fail = "write" ->
                  /\ enabled' = EnabledAfterEnableFailure
                  /\ lastCall' = WrapInMouseError("enable", Thrown(fail))
                  /\ written' = <<>>
                  /\ UNCHANGED <<inputVars, terminalMode>>
             [] fail = "setRawMode" ->
                  /\ written' = <<ProtocolOn>>
                  /\ terminalMode' = ProtocolOn
                  /\ enabled' = EnabledAfterEnableFailure
                  /\ lastCall' = WrapInMouseError("enable", Thrown(fail))
                  /\ UNCHANGED inputVars
             [] fail = "none" ->
                  /\ written' = <<ProtocolOn>>
                  /\ terminalMode' = ProtocolOn
                  /\ isRaw' = TRUE
                  /\ readableEncoding' = Some("utf8")
                  /\ flowing' = TRUE
                  /\ dataListeners' = dataListeners + 1
                  /\ enabled' = TRUE
                  /\ lastCall' = Call("enable", "ok", Null)

enable ==
    /\ \E fail \in EnableFailures :
         /\ enableBody(fail)
         /\ failure' = Thrown(fail)
    /\ Silent
    /\ UNCHANGED <<paused, eventVars, configVars, decoderVars, emitterVars, seqVars>>

\* The body of disable(), called as op: by the application ("disable") or
\* from destroy() ("destroy").
disableBody(op, fail) ==
    IF DisableIsNoop(enabled) THEN
        /\ fail = "none"
        /\ lastCall' = Call(op, "noop", Null)
        /\ written' = <<>>
        /\ UNCHANGED <<engineVars, inputVars, terminalMode>>
    ELSE
        /\ dataListeners' = OffData(dataListeners)
        /\ flowing' = FALSE
        /\ CASE fail = "setRawMode" ->
                  /\ previousRawMode # Null
                  /\ lastCall' = WrapInMouseError(op, Thrown(fail))
                  /\ written' = <<>>
                  /\ UNCHANGED <<isRaw, readableEncoding, terminalMode>>
             [] fail = "write" ->
                  /\ isRaw' = IF previousRawMode # Null THEN previousRawMode[1] ELSE isRaw
                  /\ readableEncoding' = IF previousEncoding # Null THEN previousEncoding
                                                                      ELSE readableEncoding
                  /\ lastCall' = WrapInMouseError(op, Thrown(fail))
                  /\ written' = <<>>
                  /\ UNCHANGED terminalMode
             [] fail = "none" ->
                  /\ isRaw' = IF previousRawMode # Null THEN previousRawMode[1] ELSE isRaw
                  /\ readableEncoding' = IF previousEncoding # Null THEN previousEncoding
                                                                      ELSE readableEncoding
                  /\ written' = <<ProtocolOff>>
                  /\ terminalMode' = ProtocolOff
                  /\ lastCall' = Call(op, "ok", Null)
        /\ enabled' = EnabledAfterDisable(fail # "none")
        /\ previousRawMode' = Null
        /\ previousEncoding' = Null

disableResettingPause ==
    /\ \E fail \in DisableFailures :
         /\ disableBody("disable", fail)
         /\ failure' = Thrown(fail)
    /\ Silent
    /\ paused' = FALSE
    /\ UNCHANGED <<eventVars, configVars, decoderVars, emitterVars, seqVars>>

disable ==
    /\ \E fail \in DisableFailures :
         /\ disableBody("disable", fail)
         /\ failure' = Thrown(fail)
    /\ Silent
    /\ UNCHANGED <<paused, eventVars, configVars, decoderVars, emitterVars, seqVars>>

\* ---------------------------------------------------------------- on / off
\* on(event, listener): this.emitter.on(event, listener)
on ==
    /\ \E c \in Channels \ listeners : listeners' = listeners \cup {c}
    /\ lastCall' = Call("on", "ok", Null)
    /\ written' = <<>>
    /\ failure' = Null
    /\ Silent
    /\ UNCHANGED <<engineVars, inputVars, terminalMode, eventVars, configVars, decoderVars,
                   paused, destroyed, seqVars>>

\* off(event, listener): this.emitter.off(event, listener)
off ==
    /\ \E c \in listeners : listeners' = listeners \ {c}
    /\ lastCall' = Call("off", "ok", Null)
    /\ written' = <<>>
    /\ failure' = Null
    /\ Silent
    /\ UNCHANGED <<engineVars, inputVars, terminalMode, eventVars, configVars, decoderVars,
                   paused, destroyed, seqVars>>

\* ---------------------------------------------------------------- destroy
\* this.emitter.removeAllListeners()
RemoveAllListeners(ls) == {}

\* destroy(): this.disable(); this.emitter.removeAllListeners().  When
\* disable() throws, its MouseError leaves destroy() before the second call.
destroy ==
    /\ \E fail \in DisableFailures :
         /\ disableBody("destroy", fail)
         /\ failure' = Thrown(fail)
         /\ listeners' = IF fail = "none" THEN RemoveAllListeners(listeners)
                                           ELSE listeners
         /\ seq' = IF fail = "none" THEN [seq EXCEPT !.subscribed = FALSE] ELSE seq
    /\ destroyed' = TRUE
    /\ Silent
    /\ UNCHANGED <<paused, eventVars, configVars, decoderVars, arrivedSincePull, seqLog>>

\* --------------------------------------------------------- pause / resume
pause ==
    /\ paused' = TRUE
    /\ pressHistory' = IF pressHistory = "resumed" THEN "pausedAfter" ELSE pressHistory
    /\ lastCall' = Call("pause", "ok", Null)
    /\ written' = <<>>
    /\ failure' = Null
    /\ Silent
    /\ UNCHANGED <<engineVars, inputVars, terminalMode, lastPress, tickQueue, configVars, decoderVars,
                   emitterVars, seqVars>>

resume ==
    /\ paused' = FALSE
    /\ lastCall' = Call("resume", "ok", Null)
    /\ written' = <<>>
    /\ failure' = Null
    /\ Silent
    /\ UNCHANGED <<engineVars, inputVars, terminalMode, eventVars, configVars, decoderVars, emitterVars,
                   seqVars>>

isEnabled == enabled
isPaused == paused

\* ------------------------------------------------------------ handleEvent
Abs(n) == IF n < 0 THEN -n ELSE n

\* Math.abs(event.x - lastPress.x), Math.abs(event.y - lastPress.y)
XDiff(ev, press) == Abs(ev.x - press.x)
YDiff(ev, press) == Abs(ev.y - press.y)

\* if (xDiff <= 1 && yDiff <= 1)
WithinClickDistance(ev, press) == XDiff(ev, press) <= 1 /\ YDiff(ev, press) <= 1

\* { ...event, action: 'click' }
ClickOf(ev) == [ev EXCEPT !.action = "click"]

\* What one pass of the for-loop in handleEvent works on: lastPress, the
\* emits made so far, the nextTick queue, whether a subscriber has thrown.
\* history is pressHistory; isPaused is the pause flag, which the loop only
\* carries along for that history.
LoopState(lp, tq, hist, isP) ==
    [lastPress |-> lp, emitted |-> <<>>, tickQueue |-> tq, thrown |-> FALSE,
     history |-> hist, isPaused |-> isP]

ScheduleClickSynchronously(st, click) == [st EXCEPT !.emitted = Append(@, click)]
\* process.nextTick(() => { this.emitter.emit('click', clickEvent); })
ScheduleClick(st, click) ==
    [st EXCEPT !.tickQueue = Append(@, click),
               !.history = IF @ = "pausedAfter" THEN "completed" ELSE @]

\* The if / else-if chain after the emit of one event.
\* history: "resumed" for a pending press decoded while resumed, "pausedAfter"
\* once pause() was called on it, "completed" when it then produced a click.
UpdateLastPress(st, ev) ==
    IF ev.action = "press" THEN
        [st EXCEPT !.lastPress = Some(ev),
                   !.history = IF st.isPaused THEN "none" ELSE "resumed"]
    ELSE IF ev.action = "release" THEN
        LET cleared == [st EXCEPT !.history = IF @ = "pausedAfter" THEN @ ELSE "none"]
            st2 == IF st.lastPress # Null /\ WithinClickDistance(ev, st.lastPress[1])
                   THEN ScheduleClick(cleared, ClickOf(ev))
                   ELSE cleared
        IN  [st2 EXCEPT !.lastPress = Null,
                        !.history = IF @ = "completed" THEN @ ELSE "none"]
    ELSE st

\* One pass of the loop: emit the event to its subscribers, then update
\* lastPress.  throws: a subscriber of ev.action throws inside emitter.emit,
\* which leaves the loop for the catch block.
HandleOne(st, ev, throws) ==
    LET afterEmit == [st EXCEPT !.emitted = Append(@, ev)]
    IN  IF throws THEN [afterEmit EXCEPT !.thrown = TRUE]
        ELSE UpdateLastPress(afterEmit, ev)

\* for (const event of events): events i..Len(evs) of the chunk; throwAt = 0
\* when no subscriber throws, else the index of the event at whose emit a
\* subscriber throws.
RECURSIVE HandleFrom(_, _, _, _)
HandleFrom(st, evs, i, throwAt) ==
    IF i > Len(evs) \/ st.thrown THEN st
    ELSE HandleFrom(HandleOne(st, evs[i], i = throwAt), evs, i + 1, throwAt)

\* EventEmitter.emit('error', err) throws err when 'error' has no listener.
ErrorIsUnhandled(ls) == "error" \notin ls

\* catch (err) { this.emitter.emit('error', err); }: "caught" when the error
\* went to the 'error' listeners, "uncaught" when that emit threw it on, out of
\* handleEvent and into the input source's emit('data').
CatchOutcome(ls) == IF ErrorIsUnhandled(ls) THEN "uncaught" ELSE "caught"

\* handleEvent, run by the input source's 'data' event while the handler is
\* registered; evs is what parseMouseEvents yields for the chunk.
handleEventOn(evs, throwAt) ==
    LET st == HandleFrom(LoopState(lastPress, tickQueue, pressHistory, paused), evs, 1, throwAt)
    IN  /\ lastPress' = st.lastPress
        /\ tickQueue' = st.tickQueue
        /\ pressHistory' = st.history
        /\ emitted' = st.emitted
        /\ errorsEmitted' = IF st.thrown /\ CatchOutcome(listeners \cup SeqChannels(seq)) = "caught"
                             THEN <<"HandlerError">> ELSE <<>>
        /\ lastCall' = Call("handleEvent",
                            IF st.thrown THEN CatchOutcome(listeners \cup SeqChannels(seq))
                                         ELSE "ok", Null)

\* The input source emits 'data' from the event loop, so every nextTick
\* callback queued by an earlier chunk has run before the next chunk arrives.
handleEventIn(chunks) ==
    /\ dataListeners > 0
    /\ tickQueue = <<>>
    /\ \E evs \in chunks, throwAt \in 0..MaxChunk :
         /\ throwAt <= Len(evs)
         /\ throwAt > 0 => evs[throwAt].action \in listeners
         /\ handleEventOn(evs, throwAt)
    /\ written' = <<>>
    /\ failure' = Null
    /\ NoPull
    /\ UNCHANGED <<engineVars, inputVars, terminalMode, paused, configVars, decoderVars, emitterVars,
                   seqVars>>

handleEvent == handleEventIn(SingleChunks)

handleEventChunk == handleEventIn(LongChunks)

AfterTickKept(q) == q
\* A nextTick callback runs once: it leaves the queue when it is run.
AfterTick(q) == Tail(q)

\* The scheduling turn that runs the oldest nextTick callback:
\* this.emitter.emit('click', clickEvent)
tick ==
    /\ tickQueue # <<>>
    /\ emitted' = <<Head(tickQueue)>>
    /\ errorsEmitted' = <<>>
    /\ tickQueue' = AfterTick(tickQueue)
    /\ lastCall' = Call("tick", "ok", Null)
    /\ written' = <<>>
    /\ failure' = Null
    /\ NoPull
    /\ UNCHANGED <<engineVars, inputVars, terminalMode, paused, configVars, decoderVars,
                   lastPress, pressHistory, emitterVars, seqVars>>

\* ------------------------------------------------- eventsOf() / stream()
\* One lazy sequence.  seq.pos is the position of the async generator:
\* "none" (not created), "created" (created, body not started), "awaiting"
\* (suspended in the await of the Promise, the consumer's pull pending),
\* "yielded" (suspended at a yield, the pull settled), "done" (finished).
\* seq.returnPending: the consumer called return() while its pull was
\* suspended; the generator takes the request up at its next yield.
\* A waiter that an arriving event, error or abort settles resumes the
\* generator in the same step: nothing else runs before that microtask.
SeqTypes == {"press"}
MaxQueues == 0..MaxQueue
Signals == {"none", "idle", "aborted"}
PublishedErrors == {"HandlerError"}

\* Events published on the emitter while a sequence exists.
StreamEvents ==
    {[action |-> "press", x |-> n, y |-> 0, button |-> "left"] : n \in 0..MaxSerial}
      \cup {[action |-> "release", x |-> 0, y |-> 0, button |-> "left"]}

\* throw new Error('The operation was aborted.')
AbortedAtStartError ==
    [type |-> "Error", message |-> "The operation was aborted.", cause |-> Null]
\* new MouseError('The operation was aborted.')
AbortedError ==
    [type |-> "MouseError", message |-> "The operation was aborted.", cause |-> Null]
\* new MouseError(`Error in mouse event stream: ${err.message}`, err)
StreamErrorOf(err) ==
    [type |-> "MouseError", message |-> "Error in mouse event stream", cause |-> Some(err)]

Min(a, b) == IF a <= b THEN a ELSE b

\* eventsOf: const finalMaxQueue = Math.min(maxQueue, 1000); stream() compares
\* the queue's length with maxQueue itself.
finalMaxQueue(s) ==
    IF s.kind = "eventsOf" THEN Min(s.maxQueue, QueueCeiling) ELSE s.maxQueue

\* eventsOf yields the event, stream() yields { type, event }.
Wrapped(s, ev) ==
    IF s.kind = "stream" THEN [type |-> ev.action, event |-> ev] ELSE ev

\* The sequence has a handler on the channel of ev.
Matches(s, ev) == ev.action \in SeqChannels(s)

\* queue.shift() on a possibly empty queue.
Shift(q) == IF q = <<>> THEN q ELSE Tail(q)

EnqueueAtFront(q, item, bound) == <<item>> \o (IF Len(q) >= bound THEN Shift(q) ELSE q)
\* if (queue.length >= finalMaxQueue) queue.shift(); queue.push(ev)
Enqueue(q, item, bound) == Append(IF Len(q) >= bound THEN Shift(q) ELSE q, item)

\* What a run of the sequence's code works on: its state and what it settles
\* the consumer's pull with.
Run(s) == [seq |-> s, yielded |-> Null, raised |-> Null]

FinallyKeepingErrorHandler(s) == [s EXCEPT !.abortListening = FALSE, !.pos = "done"]
\* finally: emitter.off(type, handler) (or all six), emitter.off('error',
\* errorHandler), signal?.removeEventListener('abort', abortHandler)
Finally(s) == [s EXCEPT !.subscribed = FALSE, !.abortListening = FALSE, !.pos = "done"]

\* A throw inside the try block: the finally block runs and the pull rejects.
Throw(s, err) == [seq |-> Finally(s), yielded |-> Null, raised |-> Some(err)]

\* yield item
Yield(s, item) == [seq |-> [s EXCEPT !.pos = "yielded"], yielded |-> Some(item), raised |-> Null]

\* yield await new Promise((resolve, reject) => { resolveNext = resolve; rejectNext = reject })
Await(s) ==
    Run([s EXCEPT !.pos = "awaiting", !.resolveNext = TRUE, !.rejectNext = TRUE])

\* The generator after a yield that settled the pending pull: a return()
\* queued behind that pull resumes it at the yield and runs the finally block.
AfterYield(r) == IF r.seq.returnPending THEN [r EXCEPT !.seq = Finally(@)] ELSE r

handlerIgnoringMode(s, ev) ==
    IF s.resolveNext THEN
        AfterYield(Yield([s EXCEPT !.resolveNext = FALSE, !.rejectNext = FALSE,
                                   !.latest = Null],
                         Wrapped(s, ev)))
    ELSE
        Run([s EXCEPT !.queue = Enqueue(@, Wrapped(s, ev), finalMaxQueue(s))])

handlerAlsoBuffering(s, ev) ==
    IF s.resolveNext THEN
        AfterYield(Yield([s EXCEPT !.resolveNext = FALSE, !.rejectNext = FALSE,
                                   !.queue = Append(@, Wrapped(s, ev))],
                         Wrapped(s, ev)))
    ELSE IF s.latestOnly THEN
        Run([s EXCEPT !.latest = Some(Wrapped(s, ev))])
    ELSE
        Run([s EXCEPT !.queue = Enqueue(@, Wrapped(s, ev), finalMaxQueue(s))])

\* handler(ev), called by the emitter for an event of a subscribed type.
handler(s, ev) ==
    IF s.resolveNext THEN
        AfterYield(Yield([s EXCEPT !.resolveNext = FALSE, !.rejectNext = FALSE,
                                   !.latest = Null],
                         Wrapped(s, ev)))
    ELSE IF s.latestOnly THEN
        Run([s EXCEPT !.latest = Some(Wrapped(s, ev))])
    ELSE
        Run([s EXCEPT !.queue = Enqueue(@, Wrapped(s, ev), finalMaxQueue(s))])

RejectsWaiterNever(s) == FALSE
\* if (rejectNext)
RejectsWaiter(s) == s.rejectNext

\* errorHandler(err), called by the emitter for 'error'.
errorHandler(s, err) ==
    IF RejectsWaiter(s) THEN
        Throw([s EXCEPT !.resolveNext = FALSE, !.rejectNext = FALSE], StreamErrorOf(err))
    ELSE
        Run([s EXCEPT !.errorQueue = Append(@, StreamErrorOf(err))])

AbortRejectsWaiterNever(s) == FALSE
\* abortHandler: if (rejectNext)
AbortRejectsWaiter(s) == s.rejectNext

\* abortHandler(), called by the signal when it fires.
abortHandler(s) ==
    IF AbortRejectsWaiter(s) THEN
        Throw([s EXCEPT !.resolveNext = FALSE, !.rejectNext = FALSE], AbortedError)
    ELSE
        Run([s EXCEPT !.errorQueue = Append(@, AbortedError)])

AbortedAtStartNever(s) == FALSE
\* if (signal?.aborted) throw new Error(...), before anything is subscribed
AbortedAtStart(s) == s.signal = "aborted"

\* emitter.on(type, handler) (or all six); emitter.on('error', errorHandler);
\* signal?.addEventListener('abort', abortHandler)
Subscribe(s) == [s EXCEPT !.subscribed = TRUE, !.abortListening = (s.signal # "none")]

PendingErrorAfterEvents(s) == s.errorQueue # <<>> /\ s.queue = <<>> /\ s.latest = Null
\* if (errorQueue.length > 0) throw errorQueue.shift(), ahead of the queue
PendingError(s) == s.errorQueue # <<>>

AbortedInLoopNever(s) == FALSE
\* if (signal?.aborted) throw new MouseError(...), first in each pass
AbortedInLoop(s) == s.signal = "aborted"

\* One pass of while (true) in the try block.
Loop(s) ==
    IF AbortedInLoop(s) THEN Throw(s, AbortedError)
    ELSE IF PendingError(s) THEN Throw([s EXCEPT !.errorQueue = Tail(@)], Head(s.errorQueue))
    ELSE IF s.queue # <<>> THEN Yield([s EXCEPT !.queue = Tail(@)], Head(s.queue))
    ELSE IF s.latest # Null THEN Yield([s EXCEPT !.latest = Null], s.latest[1])
    ELSE Await(s)

\* The generator's body from its start to its first yield, await or throw.
Start(s) ==
    IF AbortedAtStart(s) THEN
        [seq |-> [s EXCEPT !.pos = "done"], yielded |-> Null, raised |-> Some(AbortedAtStartError)]
    ELSE Loop(Subscribe(s))

\* A run r of the sequence's code becomes the step's next state.
Settle(r) ==
    /\ seq' = r.seq
    /\ yielded' = r.yielded
    /\ raised' = r.raised

SeqStep(op) ==
    /\ lastCall' = Call(op, "ok", Null)
    /\ written' = <<>>
    /\ failure' = Null
    /\ UNCHANGED <<engineVars, inputVars, terminalMode, eventVars, configVars, decoderVars,
                   emitterVars, paused>>

\* mouse.eventsOf(type, { latestOnly, maxQueue, signal }) and
\* mouse.stream({ latestOnly, maxQueue, signal }): the call creates the
\* generator object and runs none of its body.
Create(kind, types, modes, maxQueues, signals) ==
    /\ seq.pos = "none"
    /\ \E t \in types, lo \in modes, mq \in maxQueues, sig \in signals :
         seq' = [NoSequence EXCEPT !.pos = "created", !.kind = kind, !.type = t,
                                   !.latestOnly = lo, !.maxQueue = mq, !.signal = sig]
    /\ arrivedSincePull' = Null
    /\ emitted' = <<>>
    /\ errorsEmitted' = <<>>
    /\ NoPull
    /\ UNCHANGED seqLog
    /\ SeqStep(kind)

eventsOf == Create("eventsOf", SeqTypes, BOOLEAN, MaxQueues, Signals)

stream == Create("stream", SeqTypes, BOOLEAN, MaxQueues, Signals)

\* The same calls in queue mode with a maxQueue at and above the ceiling.
LargeMaxQueues == QueueCeiling..(QueueCeiling + MaxOver)

eventsOfLarge == Create("eventsOf", SeqTypes, {FALSE}, LargeMaxQueues, {"none"})

streamLarge == Create("stream", SeqTypes, {FALSE}, LargeMaxQueues, {"none"})

\* The history of a logged step, from what the step published and yielded.
LogStep ==
    LET delivered == emitted' # <<>> /\ Matches(seq, emitted'[1])
    IN  seqLog' =
          [published |-> IF delivered THEN Append(seqLog.published, Wrapped(seq, emitted'[1]))
                                      ELSE seqLog.published,
           yielded |-> IF yielded' # Null THEN Append(seqLog.yielded, yielded'[1])
                                          ELSE seqLog.yielded,
           overflowed |-> \/ seqLog.overflowed
                          \/ /\ delivered /\ ~seq.resolveNext /\ ~seq.latestOnly
                             /\ Len(seq.queue) >= finalMaxQueue(seq)]

\* A step that keeps no history.
NoLog == UNCHANGED seqLog

\* iterator.next(): the consumer pulls.  A consumer pulls one value at a
\* time, so no pull is made while one is pending.
nextStep ==
    /\ seq.pos \in {"created", "yielded", "done"}
    /\ Settle(CASE seq.pos = "created" -> Start(seq)
                [] seq.pos = "yielded" -> Loop(seq)
                [] seq.pos = "done" -> Run(seq))
    /\ arrivedSincePull' = Null
    /\ emitted' = <<>>
    /\ errorsEmitted' = <<>>
    /\ SeqStep("next")

next == nextStep /\ NoLog

nextLogged == nextStep /\ LogStep

\* iterator.return(): the consumer closes the sequence.  A generator that
\* has not started finishes without running its body; one suspended at a
\* yield runs its finally block; one suspended in the await of a pending
\* pull keeps the request until that pull is settled.
return ==
    /\ seq.pos \in {"created", "yielded", "awaiting"}
    /\ ~seq.returnPending
    /\ seq' = CASE seq.pos = "created" -> [seq EXCEPT !.pos = "done"]
                 [] seq.pos = "yielded" -> Finally(seq)
                 [] seq.pos = "awaiting" -> [seq EXCEPT !.returnPending = TRUE]
    /\ arrivedSincePull' = Null
    /\ UNCHANGED seqLog
    /\ emitted' = <<>>
    /\ errorsEmitted' = <<>>
    /\ NoPull
    /\ SeqStep("return")

\* emitter.emit(ev.action, ev): the emitter calls the handler the sequence
\* has on that channel, if any.
emitIn(events) ==
    /\ seq.pos # "none"
    /\ \E ev \in events :
         /\ emitted' = <<ev>>
         /\ Settle(IF Matches(seq, ev) THEN handler(seq, ev) ELSE Run(seq))
         /\ arrivedSincePull' =
               IF seq.pos \in {"created", "yielded"} /\ (seq.kind = "stream" \/ ev.action = seq.type)
               THEN Some(Wrapped(seq, ev)) ELSE arrivedSincePull
    /\ errorsEmitted' = <<>>
    /\ SeqStep("emit")

emit == emitIn(StreamEvents) /\ NoLog

\* Publications of one and the same event.
emitSame == emitIn({[action |-> "press", x |-> 0, y |-> 0, button |-> "left"]}) /\ NoLog

\* The n-th publication to the sequence, a press or a release, numbered in x.
OrderEvents(n) ==
    {[action |-> a, x |-> n, y |-> 0, button |-> "left"] : a \in {"press", "release"}}

emitLogged ==
    /\ Len(seqLog.published) < MaxPublished
    /\ emitIn(OrderEvents(Len(seqLog.published)))
    /\ LogStep

\* emitter.emit('error', err) while the sequence's errorHandler is subscribed.
emitErrorStep ==
    /\ seq.subscribed
    /\ Len(seq.errorQueue) < MaxErrors
    /\ \E err \in PublishedErrors :
         /\ errorsEmitted' = <<err>>
         /\ Settle(errorHandler(seq, err))
    /\ emitted' = <<>>
    /\ UNCHANGED arrivedSincePull
    /\ SeqStep("emitError")

emitError == emitErrorStep /\ NoLog

emitErrorLogged == emitErrorStep /\ LogStep

\* controller.abort(): the signal fires, once, and calls abortHandler if the
\* sequence has added it.
abortStep ==
    /\ seq.signal = "idle"
    /\ Settle(LET s == [seq EXCEPT !.signal = "aborted"]
              IN  IF s.abortListening THEN abortHandler(s) ELSE Run(s))
    /\ emitted' = <<>>
    /\ errorsEmitted' = <<>>
    /\ UNCHANGED arrivedSincePull
    /\ SeqStep("abort")

abort == abortStep /\ NoLog

abortLogged == abortStep /\ LogStep

\* -------------------------------------------------------- protocol decoder
\* A chunk is a sequence of characters, each a one-character string but for
\* the escape character \x1b.
ESC == "ESC"

Digits == {"0", "1", "2", "3", "4", "5", "6", "7", "8", "9"}

DigitValue(c) ==
    CASE c = "0" -> 0 [] c = "1" -> 1 [] c = "2" -> 2 [] c = "3" -> 3 [] c = "4" -> 4
      [] c = "5" -> 5 [] c = "6" -> 6 [] c = "7" -> 7 [] c = "8" -> 8 [] c = "9" -> 9

\* The characters of [\x20-\x7f] that the chunks are written with, and their
\* codes.
CharCodes ==
    [c \in Digits |-> 48 + DigitValue(c)]
      @@ (" " :> 32 @@ "!" :> 33 @@ "#" :> 35 @@ ";" :> 59 @@ "<" :> 60 @@ "J" :> 74
            @@ "M" :> 77 @@ "[" :> 91 @@ "a" :> 97 @@ "d" :> 100 @@ "m" :> 109)

Printable == DOMAIN CharCodes

\* sgrPattern: (\d{1,3}) for the button code, (\d{1,4}) for each coordinate.
MaxCodeDigits == 3
MaxCoordDigits == 4

\* The legacy protocol sends the button code and the coordinates as code + 32.
LegacyOffset == 32

\* ESC[<Cb;Cx;Cy(M|m) and ESC[MCbCxCy as texts.
SgrText(b, x, y, t) == <<ESC, "[", "<">> \o b \o <<";">> \o x \o <<";">> \o y \o <<t>>

LegacyText(cb, cx, cy) == <<ESC, "[", "M", cb, cx, cy>>

\* The decimal digits of n.
RECURSIVE DigitsOf(_)
DigitsOf(n) ==
    LET d == CHOOSE c \in Digits : DigitValue(c) = n % 10
    IN  IF n < 10 THEN <<d>> ELSE Append(DigitsOf(n \div 10), d)

\* parseInt(text, 10) of a run of digits.
RECURSIVE NumberOf(_)
NumberOf(ds) ==
    IF ds = <<>> THEN 0
    ELSE 10 * NumberOf(SubSeq(ds, 1, Len(ds) - 1)) + DigitValue(ds[Len(ds)])

\* data[i], or nothing past the end of data.
At(data, i) == IF i \in 1..Len(data) THEN data[i] ELSE ""

\* The digits \d{1,max} takes at position i: as many as there are, up to max.
RECURSIVE DigitRun(_, _, _)
DigitRun(data, i, max) ==
    IF max = 0 \/ At(data, i) \notin Digits THEN 0
    ELSE 1 + DigitRun(data, i + 1, max - 1)

\* (code >> log2(mask)) & 1
Bit(code, mask) == (code \div mask) % 2 = 1

\* sgrPattern, anchored at start: the fields of the match, or no match.
sgrPattern(data, start) ==
    LET b  == start + 3
        nb == DigitRun(data, b, MaxCodeDigits)
        x  == b + nb + 1
        nx == DigitRun(data, x, MaxCoordDigits)
        y  == x + nx + 1
        ny == DigitRun(data, y, MaxCoordDigits)
        t  == y + ny
    IN  IF /\ At(data, start) = ESC /\ At(data, start + 1) = "[" /\ At(data, start + 2) = "<"
           /\ nb >= 1 /\ At(data, b + nb) = ";"
           /\ nx >= 1 /\ At(data, x + nx) = ";"
           /\ ny >= 1 /\ At(data, t) \in {"M", "m"}
        THEN Some([code |-> NumberOf(SubSeq(data, b, b + nb - 1)),
                   x |-> NumberOf(SubSeq(data, x, x + nx - 1)),
                   y |-> NumberOf(SubSeq(data, y, y + ny - 1)),
                   terminator |-> data[t],
                   text |-> SubSeq(data, start, t)])
        ELSE Null

\* escPattern, anchored at start: three characters of [\x20-\x7f] after ESC[M.
escPattern(data, start) ==
    IF /\ At(data, start) = ESC /\ At(data, start + 1) = "[" /\ At(data, start + 2) = "M"
       /\ \A k \in 3..5 : At(data, start + k) \in Printable
    THEN Some([code |-> CharCodes[data[start + 3]] - LegacyOffset,
               x |-> CharCodes[data[start + 4]] - LegacyOffset,
               y |-> CharCodes[data[start + 5]] - LegacyOffset,
               text |-> SubSeq(data, start, start + 5)])
    ELSE Null

WheelButtons == (64 :> "wheel-up" @@ 65 :> "wheel-down" @@ 66 :> "wheel-left" @@ 67 :> "wheel-right")

PressButtons == (0 :> "left" @@ 1 :> "middle" @@ 2 :> "right")

\* The button and action of a button code: the wheel codes, the wheel flag
\* with any other code, back and forward, then the low two bits with the
\* motion flag.
decodeButton(code) ==
    IF code \in DOMAIN WheelButtons THEN [button |-> WheelButtons[code], action |-> "wheel"]
    ELSE IF Bit(code, 64) THEN [button |-> "unknown", action |-> "press"]
    ELSE IF code = 128 THEN [button |-> "back", action |-> "press"]
    ELSE IF code = 129 THEN [button |-> "forward", action |-> "press"]
    ELSE IF code % 4 = 3 THEN
        [button |-> "none", action |-> IF Bit(code, 32) THEN "move" ELSE "release"]
    ELSE
        [button |-> PressButtons[code % 4], action |-> IF Bit(code, 32) THEN "drag" ELSE "press"]

decodeSGRButtonIgnoringTerminator(code, terminator) == decodeButton(code)
\* decodeSGRButton, with the terminator of the sequence: m is a release.
decodeSGRButton(code, terminator) ==
    IF terminator = "m" THEN [decodeButton(code) EXCEPT !.action = "release"]
    ELSE decodeButton(code)

\* decodeESCButton: the same bits; a release is button code 3.
decodeESCButton(code) == decodeButton(code)

MouseEventOf(m, protocol, decodedButton) ==
    [x |-> m.x, y |-> m.y, button |-> decodedButton.button, action |-> decodedButton.action,
     shift |-> Bit(m.code, 4), alt |-> Bit(m.code, 8), ctrl |-> Bit(m.code, 16),
     raw |-> m.code, data |-> m.text, protocol |-> protocol]

\* parseSGRMouseEvent(data, start) and parseESCMouseEvent(data, start): the
\* event of the sequence that starts at start, or none.
parseSGRMouseEvent(data, start) ==
    LET m == sgrPattern(data, start)
    IN  IF m = Null THEN Null
        ELSE Some(MouseEventOf(m[1], "SGR", decodeSGRButton(m[1].code, m[1].terminator)))

parseESCMouseEvent(data, start) ==
    LET m == escPattern(data, start)
    IN  IF m = Null THEN Null
        ELSE Some(MouseEventOf(m[1], "ESC", decodeESCButton(m[1].code)))

\* The branch on data[i + 2] after the prefix ESC [.
parseAt(data, i) ==
    IF At(data, i) = ESC /\ At(data, i + 1) = "["
    THEN IF At(data, i + 2) = "<" THEN parseSGRMouseEvent(data, i)
         ELSE IF At(data, i + 2) = "M" THEN parseESCMouseEvent(data, i)
         ELSE Null
    ELSE Null

IsDuplicateNever(memory, text) == FALSE
\* Run-length deduplication: the text is that of the event yielded last.
IsDuplicate(memory, text) == memory = Some(text)

AfterNoMatchGivingUp(data, i) == Len(data) + 1
\* Where the scan goes on after a position with no event: one further.
AfterNoMatch(data, i) == i + 1

\* The scan from position i, memory being the text of the event yielded last:
\* a position with no event advances the scan by one, an event by its length.
RECURSIVE ScanFrom(_, _, _)
ScanFrom(data, i, memory) ==
    IF i > Len(data) THEN <<>>
    ELSE LET ev == parseAt(data, i)
         IN  IF ev = Null THEN ScanFrom(data, AfterNoMatch(data, i), memory)
             ELSE IF IsDuplicate(memory, ev[1].data)
                  THEN ScanFrom(data, i + Len(ev[1].data), memory)
                  ELSE <<ev[1]>> \o ScanFrom(data, i + Len(ev[1].data), Some(ev[1].data))

InitialMemoryKept(previous) == previous
\* The deduplication memory a call starts with, previous being the text of
\* the event the calls before it yielded last: each call starts with none.
InitialMemory(previous) == Null

\* parseMouseEvents(data), all of the events the generator yields.
parseMouseEvents(data, previous) == ScanFrom(data, 1, InitialMemory(previous))

\* data.toString() of a chunk that is the concatenation of texts.
RECURSIVE Concat(_)
Concat(ps) == IF ps = <<>> THEN <<>> ELSE Head(ps) \o Concat(Tail(ps))

\* Sequences a terminal sends: an SGR press, its release, a legacy press.
ValidFragments ==
    {SgrText(<<"0">>, <<"1">>, <<"1">>, "M"),
     SgrText(<<"0">>, <<"1">>, <<"1">>, "m"),
     LegacyText(" ", "#", "4")}

\* Content the decoder skips: a non-digit field, a button code of four
\* digits, a coordinate of five digits, an incomplete sequence, an escape
\* sequence that is no mouse report, plain text.
NoiseFragments ==
    {SgrText(<<"a">>, <<"1">>, <<"1">>, "M"),
     SgrText(<<"9", "9", "9", "9">>, <<"1">>, <<"1">>, "M"),
     SgrText(<<"0">>, <<"9", "9", "9", "9", "9">>, <<"1">>, "M"),
     <<ESC, "[", "<", "0", ";", "1", ";">>,
     <<ESC, "[", "2", "J">>,
     <<"a">>}

\* Chunks of one to MaxRun sequences, and chunks with skipped content before,
\* between and after sequences.
ValidChunks == UNION {[1..n -> ValidFragments] : n \in 1..MaxRun}

NoisyChunks ==
    {<<n>> : n \in NoiseFragments}
      \cup {<<n, v>> : n \in NoiseFragments, v \in ValidFragments}
      \cup {<<v, n>> : v \in ValidFragments, n \in NoiseFragments}
      \cup {<<v, n, w>> : v \in ValidFragments, n \in NoiseFragments, w \in ValidFragments}
      \cup {<<n, m, v>> : n \in NoiseFragments, m \in NoiseFragments, v \in ValidFragments}

\* The button codes, coordinates and terminators of the SGR reports decoded
\* one per chunk: the buttons and the release code, alone, with each modifier,
\* with all of them and with the motion flag, the wheel codes, other codes
\* with the wheel flag, back and forward.
SgrCodes == 0..3 \cup {4, 8, 16, 28} \cup 32..35 \cup {63} \cup 64..68 \cup {128, 129, 200}

SgrCoords == {1, 20, 9999}

SgrChunks ==
    {<<SgrText(DigitsOf(b), DigitsOf(1), DigitsOf(20), t)>> : b \in SgrCodes, t \in {"M", "m"}}
      \cup {<<SgrText(DigitsOf(0), DigitsOf(x), DigitsOf(y), t)>> :
               x \in SgrCoords, y \in SgrCoords, t \in {"M", "m"}}
      \cup {<<SgrText(<<"0", "0", "2">>, <<"0", "0", "0", "1">>, DigitsOf(20), "M")>>}

\* The text of the event yielded last by all the calls so far.
LastEmitted == IF decoded = <<>> THEN previousEmitted ELSE Some(decoded[Len(decoded)].data)

\* handleEvent's parseMouseEvents(data.toString()), for a chunk of chunks.
parseIn(chunks) ==
    /\ \E ps \in chunks :
         /\ parts' = ps
         /\ decoded' = parseMouseEvents(Concat(ps), LastEmitted)
    /\ previousEmitted' = LastEmitted
    /\ lastCall' = Call("parseMouseEvents", "ok", Null)
    /\ written' = <<>>
    /\ failure' = Null
    /\ Silent
    /\ UNCHANGED <<engineVars, inputVars, terminalMode, eventVars, configVars, emitterVars,
                   seqVars, paused>>

parseChunk == parseIn(ValidChunks)

parseNoisyChunk == parseIn(NoisyChunks)

parseSgr == parseIn(SgrChunks)

\* ------------------------------------------------------------------- Next
Next ==
    \/ enable
    \/ disable
    \/ pause
    \/ resume
    \/ handleEvent
    \/ handleEventChunk
    \/ tick

\* The engine with an application that subscribes and unsubscribes handlers,
\* some of which throw.
NextDispatch ==
    \/ enable
    \/ disable
    \/ destroy
    \/ on
    \/ off
    \/ handleEvent
    \/ handleEventChunk
    \/ tick

\* The calls of the lifecycle alone, in every environment.
NextLifecycle ==
    \/ enable
    \/ disable
    \/ pause
    \/ resume
    \/ on
    \/ off
    \/ destroy

InitLifecycle == Init /\ clickDistanceThreshold = DefaultThreshold

\* An interactive input source in cooked mode with no encoding set.
InitInteractive == Init /\ isTTY /\ ~isRaw /\ readableEncoding = Null

InitEngine == InitInteractive /\ clickDistanceThreshold = DefaultThreshold

SpecLifecycle == InitLifecycle /\ [][NextLifecycle]_vars

SpecEngine == InitEngine /\ [][Next]_vars

SpecThreshold == InitInteractive /\ [][Next]_vars

SpecDispatch == InitEngine /\ [][NextDispatch]_vars

\* The same, with the event loop running every nextTick callback: a queued
\* callback runs before the loop takes up any further input.
SpecClicks == SpecDispatch /\ WF_vars(tick)

\* One lazy sequence, its consumer, the publications on the emitter and the
\* cancellation signal.
NextStream ==
    \/ eventsOf
    \/ stream
    \/ next
    \/ return
    \/ emit
    \/ emitError
    \/ abort

SpecStream == InitEngine /\ [][NextStream]_vars

\* The sequence and its consumer with an application that also destroys the
\* engine.  The environment is taken at its most helpful: publications go on,
\* and a cancellation signal that exists is eventually fired.
NextDestroy ==
    \/ NextStream
    \/ destroy

SpecDestroy ==
    /\ InitEngine
    /\ [][NextDestroy]_vars
    /\ WF_vars(emit)
    /\ WF_vars(emitError)
    /\ WF_vars(abort)

\* The same with the history of publications and yields kept, for a bounded
\* number of numbered publications.
NextOrder ==
    \/ eventsOf
    \/ stream
    \/ nextLogged
    \/ return
    \/ emitLogged
    \/ emitErrorLogged
    \/ abortLogged

SpecOrder == InitEngine /\ [][NextOrder]_vars

\* A sequence with a large maxQueue and a consumer slower than the
\* publications.
NextCeiling ==
    \/ eventsOfLarge
    \/ streamLarge
    \/ next
    \/ emitSame

SpecCeiling == InitEngine /\ [][NextCeiling]_vars

\* The decoder on successive chunks of an input source.
NextDecoder ==
    \/ parseChunk
    \/ parseNoisyChunk

SpecDecoder == InitEngine /\ [][NextDecoder]_vars

\* The decoder on chunks of one SGR report each.
NextSgr ==
    \/ parseSgr

SpecSgr == InitEngine /\ [][NextSgr]_vars

TypeOK ==
    /\ enabled \in BOOLEAN
    /\ paused \in BOOLEAN
    /\ dataListeners \in 0..1
    /\ Len(tickQueue) <= MaxChunk

\* ================================================================= claims
Max(a, b) == IF a >= b THEN a ELSE b

ByCall(ops) == lastCall'.op \in ops

C1_EnabledPaused   == isEnabled /\ isPaused
C1_EnabledResumed  == isEnabled /\ ~isPaused
C1_DisabledPaused  == ~isEnabled /\ isPaused
C1_DisabledResumed == ~isEnabled /\ ~isPaused

C2_NothingPublishedWhilePaused ==
    (isPaused /\ lastCall.op = "handleEvent") => emitted = <<>>

\* C3 (as claimed): a press decoded while resumed and followed by pause()
\* never completes as a click, whether its release is decoded while paused
\* or after resume().
C3_NoClickFromPressBeforePause == pressHistory # "completed"

\* The step decodes exactly the release rel, with a press pending.
ReleaseStep(rel) ==
    /\ ByCall({"handleEvent"})
    /\ emitted' = <<rel>>
    /\ rel.action = "release"

Distance(rel, press) == Max(Abs(rel.x - press.x), Abs(rel.y - press.y))

\* C4 (as claimed): a decoded release with a pending press synthesizes exactly
\* one click, carrying the release's x, y and button, if and only if
\* max(|x-x0|, |y-y0|) is at most the click threshold (default 1); a release
\* with no pending press synthesizes none.
C4_ClickIffWithinThreshold ==
    [][ \A rel \in DecodedEvents : ReleaseStep(rel) =>
          IF lastPress # Null /\ Distance(rel, lastPress[1]) <= DefaultThreshold
          THEN tickQueue' = Append(tickQueue, ClickOf(rel))
          ELSE tickQueue' = tickQueue ]_vars

\* C5 (as claimed): the threshold is the clickDistanceThreshold given at
\* construction: when no subscriber throws, a release at distance at most N
\* from the pending press yields a click and a release farther away yields
\* none.
C5_ThresholdIsTheOption ==
    [][ \A rel \in DecodedEvents :
          (ReleaseStep(rel) /\ lastCall'.outcome = "ok" /\ lastPress # Null) =>
             (Distance(rel, lastPress[1]) <= clickDistanceThreshold
                <=> tickQueue' = Append(tickQueue, ClickOf(rel))) ]_vars

ReleaseOf(click) == [click EXCEPT !.action = "release"]

\* C6: a click is published only by a scheduling turn that takes it from the
\* nextTick queue, never by the handler run that decoded its release; and
\* when a click enters that queue, its release has been published by the
\* handler run that queued it.
C6_ClickAfterRelease ==
    [][ /\ \A i \in 1..Len(emitted') :
              emitted'[i].action = "click" =>
                 /\ ByCall({"tick"})
                 /\ tickQueue # <<>>
                 /\ emitted'[i] = Head(tickQueue)
        /\ ByCall({"handleEvent"}) =>
              \A j \in (Len(tickQueue) + 1)..Len(tickQueue') :
                 \E i \in 1..Len(emitted') : emitted'[i] = ReleaseOf(tickQueue'[j]) ]_vars

\* C6 witness: a scheduling turn has published a click.
C6_Witness == lastCall.op = "tick" /\ Len(emitted) = 1 /\ emitted[1].action = "click"

\* C7: enable() on an input source that is not a TTY throws an Error and
\* changes nothing: enabled stays false, nothing is written, raw mode and
\* encoding are untouched, no 'data' listener is added.
C7_EnableNeedsTTY ==
    [][ (ByCall({"enable"}) /\ ~isTTY) =>
          /\ lastCall'.outcome = "Error"
          /\ ~isEnabled'
          /\ written' = <<>>
          /\ terminalMode' = terminalMode
          /\ isRaw' = isRaw
          /\ readableEncoding' = readableEncoding
          /\ dataListeners' = dataListeners ]_vars

\* C7 witness: enable() has thrown its TTY error.
C7_Witness == ~isTTY /\ lastCall = Call("enable", "Error", Null)

\* C8: when write() or setRawMode() throws inside enable(), enable() throws a
\* MouseError wrapping that error and isEnabled() is false afterwards.
C8_EnableFailureRollsBack ==
    (lastCall.op = "enable" /\ failure # Null) =>
        /\ lastCall.outcome = "MouseError"
        /\ lastCall.cause = failure
        /\ ~isEnabled

\* C8 witness: enable() failed at setRawMode(), after its write.
C8_Witness ==
    lastCall.op = "enable" /\ failure = Some("setRawMode") /\ written = <<ProtocolOn>>

\* C9: when a collaborator throws inside disable(), disable() throws a
\* MouseError wrapping that error and the engine is disabled all the same: a
\* disable() that follows is a no-op.
C9_DisableFailureStillDisables ==
    /\ [] ((lastCall.op = "disable" /\ failure # Null) =>
             /\ lastCall.outcome = "MouseError"
             /\ lastCall.cause = failure
             /\ ~isEnabled)
    /\ [][ (lastCall.op = "disable" /\ failure # Null /\ ByCall({"disable"})) =>
             /\ lastCall'.outcome = "noop"
             /\ written' = <<>>
             /\ UNCHANGED <<engineVars, inputVars, terminalMode>> ]_vars

\* C9 witness: disable() failed at its write.
C9_Witness == lastCall.op = "disable" /\ failure = Some("write") /\ ~isEnabled

\* C10: enable() while enabled and disable() while not enabled write nothing,
\* leave raw mode, encoding and the 'data' listeners alone and leave enabled
\* unchanged.
C10_RedundantCallsAreNoops ==
    [][ ((ByCall({"enable"}) /\ isEnabled) \/ (ByCall({"disable"}) /\ ~isEnabled)) =>
          /\ lastCall'.outcome = "noop"
          /\ written' = <<>>
          /\ UNCHANGED <<engineVars, inputVars, terminalMode>> ]_vars

\* C10 witness: enable() was called while enabled.
C10_Witness == isEnabled /\ lastCall = Call("enable", "noop", Null)

\* C11 (as claimed): once destroy() has been called the engine is never
\* enabled again, and every later enable() or destroy() writes nothing and
\* leaves the input source and the terminal as they are.
C11_DestroyIsTerminal ==
    [][ destroyed =>
          /\ ~isEnabled'
          /\ ByCall({"enable", "destroy"}) =>
                /\ written' = <<>>
                /\ UNCHANGED <<inputVars, terminalMode>> ]_vars

\* C12 (as claimed): after every destroy() no handler added by on() and no
\* handler of a lazy sequence is left on the emitter.
C12_DestroyRemovesAllListeners ==
    lastCall.op = "destroy" => (listeners = {} /\ ~seq.subscribed)

\* C13 (as claimed): a successful enable() snapshots the input source's raw
\* mode and encoding, the snapshot stays as it is while the engine is enabled,
\* and a successful disable() leaves the input source with exactly the
\* snapshotted raw mode and encoding, an encoding of none included.
C13_EnableDisableRestores ==
    [][ /\ (ByCall({"enable"}) /\ lastCall'.outcome = "ok") =>
              /\ previousRawMode' = Some(isRaw)
              /\ previousEncoding' = readableEncoding
        /\ (isEnabled /\ isEnabled') =>
              UNCHANGED <<previousRawMode, previousEncoding>>
        /\ (ByCall({"disable"}) /\ lastCall'.outcome = "ok") =>
              /\ Some(isRaw') = previousRawMode
              /\ readableEncoding' = previousEncoding ]_vars

\* C14 (as claimed): a subscriber that throws during dispatch never makes the
\* raw-data handler throw into the input source: the error is caught and
\* published on the error channel.
C14_SubscriberThrowIsIsolated ==
    lastCall.op = "handleEvent" => lastCall.outcome # "uncaught"

\* The step is a publication that reaches the sequence's handler while no
\* pull is pending.
BufferingStep ==
    /\ ByCall({"emit"})
    /\ Matches(seq, emitted'[1])
    /\ ~seq.resolveNext

\* C15 (as claimed): the number of buffered events never exceeds the
\* requested maxQueue.
C15_QueueNeverExceedsMaxQueue == Len(seq.queue) <= seq.maxQueue

\* C15, the overflow policy: an event that arrives in queue mode while the
\* buffer holds maxQueue events or more is appended and the oldest buffered
\* event is dropped.
C15_OverflowDropsOldest ==
    [][ (BufferingStep /\ ~seq.latestOnly /\ Len(seq.queue) >= finalMaxQueue(seq)) =>
          seq'.queue = Append(Shift(seq.queue), Wrapped(seq, emitted'[1])) ]_vars

\* C16 (as claimed): whatever maxQueue was requested, no sequence, of
\* eventsOf() or of stream(), ever buffers more than 1000 events.
C16_QueueClampedToCeiling == Len(seq.queue) <= QueueCeiling

\* The step is a pull on a sequence with no error pending and no
\* cancellation signalled.
CleanPull ==
    /\ ByCall({"next"})
    /\ seq.pos \in {"created", "yielded"}
    /\ seq.errorQueue = <<>>
    /\ seq.signal # "aborted"

\* C17 (as claimed): with latestOnly nothing is ever queued; a pull made after
\* one or more matching events arrived with no pull pending yields the most
\* recent of them, and a pull made when none arrived since the last pull
\* suspends.
C17_LatestOnlyYieldsMostRecent ==
    [][ seq'.latestOnly =>
          /\ seq'.queue = <<>>
          /\ (CleanPull /\ arrivedSincePull # Null) => yielded' = arrivedSincePull
          /\ (CleanPull /\ arrivedSincePull = Null) =>
                (yielded' = Null /\ seq'.pos = "awaiting") ]_vars

\* C17 on a sequence whose first pull has been made.
C17_AfterFirstPull ==
    [][ (seq'.latestOnly /\ seq.pos = "yielded") =>
          /\ seq'.queue = <<>>
          /\ (CleanPull /\ arrivedSincePull # Null) => yielded' = arrivedSincePull
          /\ (CleanPull /\ arrivedSincePull = Null) =>
                (yielded' = Null /\ seq'.pos = "awaiting") ]_vars

C19_ErrorRejectsSuspendedPull ==
    [][ (ByCall({"emitError"}) /\ seq.pos = "awaiting") =>
          /\ raised' = Some(StreamErrorOf(errorsEmitted'[1]))
          /\ yielded' = Null
          /\ seq'.pos = "done"
          /\ seq'.errorQueue = seq.errorQueue
          /\ ~seq'.resolveNext /\ ~seq'.rejectNext ]_vars

\* C19 witness: a published error has rejected a suspended pull.
C19_Witness ==
    /\ lastCall.op = "emitError"
    /\ raised = Some(StreamErrorOf("HandlerError"))
    /\ seq.pos = "done"
    /\ seq.errorQueue = <<>>

\* C20: the first pull on a sequence whose signal is already aborted is
\* rejected with Error('The operation was aborted.') without anything being
\* subscribed, and the finished sequence never yields an event nor holds a
\* subscription.
C20_AbortedBeforeStart ==
    [][ /\ (ByCall({"next"}) /\ seq.pos = "created" /\ seq.signal = "aborted") =>
              /\ raised' = Some(AbortedAtStartError)
              /\ yielded' = Null
              /\ seq'.pos = "done"
              /\ ~seq'.subscribed /\ ~seq'.abortListening
        /\ seq.pos = "done" =>
              /\ yielded' = Null
              /\ seq'.pos = "done"
              /\ ~seq'.subscribed /\ ~seq'.abortListening ]_vars

\* C20 witness: the first pull failed on the aborted signal, and events were
\* published afterwards.
C20_Witness ==
    /\ seq.pos = "done"
    /\ seq.signal = "aborted"
    /\ seq.errorQueue = <<>>
    /\ lastCall.op = "emit"
    /\ arrivedSincePull = Null

\* C21: when the signal fires while the consumer is suspended in a pull, that
\* pull is rejected with the cancellation MouseError, the sequence's event
\* and error subscriptions and its abort listener are removed, and no event
\* published afterwards is yielded by, or changes, the finished sequence.
C21_AbortRejectsSuspendedPull ==
    [][ /\ (ByCall({"abort"}) /\ seq.pos = "awaiting") =>
              /\ raised' = Some(AbortedError)
              /\ yielded' = Null
              /\ seq'.pos = "done"
              /\ ~seq'.subscribed /\ ~seq'.abortListening
        /\ (ByCall({"emit"}) /\ seq.pos = "done" /\ seq.signal = "aborted") =>
              /\ yielded' = Null
              /\ seq' = seq ]_vars

\* C21 witness: the abort step has rejected the suspended pull.
C21_Witness ==
    /\ lastCall.op = "abort"
    /\ raised = Some(AbortedError)
    /\ seq.pos = "done"
    /\ ~seq.subscribed

\* C22: a finished sequence, however it ended (return() at a yield, return()
\* queued behind a suspended pull, a thrown stream error, cancellation),
\* holds no subscription on the emitter and no listener on the signal.
C22_FinishedHoldsNoSubscription ==
    seq.pos = "done" => (~seq.subscribed /\ ~seq.abortListening)

\* C22 witness: a subscribed sequence with buffered events was closed by the
\* consumer.
C22_Witness ==
    /\ lastCall.op = "return"
    /\ seq.pos = "done"
    /\ seq.queue # <<>>

\* C22 witness: a return() queued behind a suspended pull has finished the
\* sequence once an event settled that pull.
C22_ClosedAfterPendingPull ==
    /\ lastCall.op = "emit"
    /\ seq.pos = "done"
    /\ seq.returnPending
    /\ yielded # Null

NoDuplicates(q) == \A i, j \in 1..Len(q) : q[i] = q[j] => i = j

\* C29: a matching event published while the consumer is suspended in a pull
\* settles that pull with the event and is put neither in the queue nor in
\* the latest slot; no published event is yielded twice.
C29_DirectHandoff ==
    [][ /\ \A ev \in OrderEvents(Len(seqLog.published)) :
              (ByCall({"emit"}) /\ emitted' = <<ev>> /\ seq.pos = "awaiting"
                 /\ Matches(seq, ev)) =>
                   /\ yielded' = Some(Wrapped(seq, ev))
                   /\ seq'.queue = <<>>
                   /\ seq'.latest = Null
        /\ NoDuplicates(seqLog'.yielded) ]_vars

\* C29 witness: an event was handed to the suspended pull.
C29_Witness ==
    /\ lastCall.op = "emit"
    /\ yielded # Null
    /\ seq.pos = "yielded"
    /\ seq.queue = <<>>
    /\ seq.latest = Null
    /\ Len(seqLog.yielded) = 2

RECURSIVE IsSubsequence(_, _)
IsSubsequence(a, b) ==
    IF a = <<>> THEN TRUE
    ELSE IF b = <<>> THEN FALSE
    ELSE IF Head(a) = Head(b) THEN IsSubsequence(Tail(a), Tail(b))
    ELSE IsSubsequence(a, Tail(b))

\* C30: what a sequence has yielded is a subsequence, in publication order,
\* of the matching events published while it was subscribed; in queue mode
\* with no overflow it is the prefix of them that is followed by exactly the
\* queue, so each of them is yielded in publication order (a stream error or
\* a cancellation ends the sequence and loses that order for none of them).
C30_YieldedInPublicationOrder ==
    /\ IsSubsequence(seqLog.yielded, seqLog.published)
    /\ (~seq.latestOnly /\ ~seqLog.overflowed) =>
           seqLog.yielded \o seq.queue = seqLog.published

\* C30 witness: in queue mode without overflow every publication has been
\* yielded, the last of them by the handoff to a suspended pull.
C30_Witness ==
    /\ ~seq.latestOnly
    /\ ~seqLog.overflowed
    /\ Len(seqLog.yielded) = MaxPublished
    /\ seq.maxQueue = 2
    /\ lastCall.op = "emit"

\* C27 (as claimed): every decoded release leaves no pending press, whether
\* or not it synthesized a click, so that of two releases after one press
\* only the first can synthesize a click.
C27_ReleaseClearsPendingPress ==
    [][ \A rel \in DecodedEvents : ReleaseStep(rel) => lastPress' = Null ]_vars

\* The step decodes exactly the press p.
PressStep(p) ==
    /\ ByCall({"handleEvent"})
    /\ emitted' = <<p>>
    /\ p.action = "press"

\* C28 (as claimed): a decoded press becomes the one pending press, in place
\* of any earlier one, so that a later release is compared with it alone.
C28_PressOverwritesPendingPress ==
    [][ \A p \in DecodedEvents : PressStep(p) => lastPress' = Some(p) ]_vars

\* The texts of the events of evs, in order.
Datas(evs) == [i \in 1..Len(evs) |-> evs[i].data]

\* q without the elements equal to the one before them.
RECURSIVE Collapse(_)
Collapse(q) ==
    IF Len(q) <= 1 THEN q
    ELSE IF q[1] = q[2] THEN Collapse(Tail(q))
    ELSE <<q[1]>> \o Collapse(Tail(q))

Parsed == lastCall.op = "parseMouseEvents"

\* C23: within one call, of the sequences of a chunk the decoder yields each
\* one that differs from the sequence before it: a run of identical
\* sequences yields one event, and a sequence is yielded again after a
\* different one.
C23_RunLengthDeduplication ==
    (Parsed /\ \A i \in 1..Len(parts) : parts[i] \in ValidFragments) =>
        Datas(decoded) = Collapse(parts)

\* C23 witness: a run of MaxRun identical sequences yielded one event.
C23_Witness ==
    /\ Parsed
    /\ \E v \in ValidFragments : parts = [i \in 1..MaxRun |-> v]
    /\ Len(decoded) = 1

\* C23 witness: a sequence was yielded again after a different one.
C23_YieldedAgain ==
    /\ Parsed
    /\ \E v, w \in ValidFragments : v # w /\ parts = <<v, w, v>>
    /\ Datas(decoded) = parts

\* The step decodes a chunk whose first sequence is the text of the event the
\* calls before it yielded last.
RepeatsLastEmitted ==
    /\ ByCall({"parseMouseEvents"})
    /\ LastEmitted # Null
    /\ parts' # <<>>
    /\ parts'[1] = LastEmitted[1]

TableButton(b) ==
    CASE b = 64 -> "wheel-up" [] b = 65 -> "wheel-down"
      [] b = 66 -> "wheel-left" [] b = 67 -> "wheel-right"
      [] b = 128 -> "back" [] b = 129 -> "forward"
      [] b \notin (64..67 \cup {128, 129}) /\ (b \div 64) % 2 = 1 -> "unknown"
      [] b < 64 /\ b % 4 = 0 -> "left"
      [] b < 64 /\ b % 4 = 1 -> "middle"
      [] b < 64 /\ b % 4 = 2 -> "right"
      [] b < 64 /\ b % 4 = 3 -> "none"

TableAction(b, t) ==
    CASE t = "m" -> "release"
      [] t = "M" /\ b \in 64..67 -> "wheel"
      [] t = "M" /\ (b \in {128, 129} \/ (b \notin 64..67 /\ (b \div 64) % 2 = 1)) -> "press"
      [] t = "M" /\ b < 64 /\ b % 4 = 3 -> IF (b \div 32) % 2 = 1 THEN "move" ELSE "release"
      [] t = "M" /\ b < 64 /\ b % 4 # 3 -> IF (b \div 32) % 2 = 1 THEN "drag" ELSE "press"

\* The SGR reports of the bounded sets, each with its text.
SgrReports ==
    {[b |-> b, x |-> x, y |-> y, t |-> t,
      text |-> SgrText(DigitsOf(b), DigitsOf(x), DigitsOf(y), t)] :
        b \in SgrCodes, x \in SgrCoords, y \in SgrCoords, t \in {"M", "m"}}
      \cup {[b |-> 2, x |-> 1, y |-> 20, t |-> "M",
              text |-> SgrText(<<"0", "0", "2">>, <<"0", "0", "0", "1">>, DigitsOf(20), "M")]}

\* C25: a chunk that is one valid SGR sequence ESC[<b;x;y(M|m) decodes to
\* exactly one event, with those x and y, the button and action of the bit
\* table, the modifiers of bits 0x04, 0x08 and 0x10, and action release
\* whenever the terminator is m.
C25_SgrDecodesByBitTable ==
    \A r \in SgrReports :
        (Parsed /\ parts = <<r.text>>) =>
            /\ Len(decoded) = 1
            /\ decoded[1].x = r.x /\ decoded[1].y = r.y
            /\ decoded[1].button = TableButton(r.b)
            /\ decoded[1].action = TableAction(r.b, r.t)
            /\ decoded[1].shift = ((r.b \div 4) % 2 = 1)
            /\ decoded[1].alt = ((r.b \div 8) % 2 = 1)
            /\ decoded[1].ctrl = ((r.b \div 16) % 2 = 1)
            /\ decoded[1].protocol = "SGR"
            /\ decoded[1].data = r.text

\* C25 witness: a report with the motion flag and terminator m was decoded
\* as a release.
C25_Witness ==
    /\ Parsed
    /\ parts = <<SgrText(DigitsOf(32), DigitsOf(1), DigitsOf(20), "m")>>
    /\ Len(decoded) = 1
    /\ decoded[1].action = "release"

\* C25 witness: coordinates of four digits.
C25_FullWidth ==
    /\ Parsed
    /\ parts = <<SgrText(DigitsOf(0), DigitsOf(9999), DigitsOf(9999), "M")>>
    /\ Len(decoded) = 1
    /\ decoded[1].x = 9999

C26_ValidAroundNoise ==
    /\ Parsed
    /\ Len(parts) = 3
    /\ parts[2] \in NoiseFragments
    /\ Datas(decoded) = <<parts[1], parts[3]>>

\* What the loop of handleEvent leaves for the chunk evs when no subscriber
\* throws.
Undisturbed(evs) ==
    HandleFrom(LoopState(lastPress, tickQueue, pressHistory, paused), evs, 1, 0)

\* C31 (as claimed): a run of handleEvent in which a subscriber throws leaves
\* the pending press and the scheduled clicks as the same run would with no
\* subscriber throwing.
C31_ThrowLeavesStateIntact ==
    [][ \A ev \in DecodedEvents :
          (ByCall({"handleEvent"}) /\ emitted' = <<ev>>) =>
              /\ lastPress' = Undisturbed(<<ev>>).lastPress
              /\ tickQueue' = Undisturbed(<<ev>>).tickQueue ]_vars

\* The step is a run of handleEvent on the chunk evs in which a subscriber
\* throws at the event throwAt.
ThrowingRun(evs, throwAt) ==
    /\ dataListeners > 0
    /\ tickQueue = <<>>
    /\ throwAt <= Len(evs)
    /\ evs[throwAt].action \in listeners
    /\ handleEventOn(evs, throwAt)

\* C39 (as claimed): when a subscriber throws at one event of a chunk, the
\* events decoded after it in the chunk are still published, in decode
\* order.
C39_LaterEventsStillPublished ==
    [][ \A evs \in LongChunks, throwAt \in 1..MaxChunk :
          ThrowingRun(evs, throwAt) => emitted' = evs ]_vars

Releases(evs) == Len(SelectSeq(evs, LAMBDA e : e.action = "release"))

Clicks(evs) == Len(SelectSeq(evs, LAMBDA e : e.action = "click"))

\* C40: a run of handleEvent schedules at most one click for each release it
\* publishes and publishes no click itself; a scheduling turn publishes one
\* scheduled click and removes it; no other step schedules or publishes a
\* click, so the clicks published never outnumber the releases published;
\* and every scheduled click is eventually published.
C40_OneClickPerRelease ==
    /\ [][ /\ ByCall({"handleEvent"}) =>
                 /\ Clicks(emitted') = 0
                 /\ Len(tickQueue') <= Len(tickQueue) + Releases(emitted')
                 /\ SubSeq(tickQueue', 1, Len(tickQueue)) = tickQueue
           /\ ByCall({"tick"}) =>
                 /\ emitted' = <<Head(tickQueue)>>
                 /\ tickQueue' = Tail(tickQueue)
           /\ ~ByCall({"handleEvent", "tick"}) =>
                 /\ Clicks(emitted') = 0
                 /\ tickQueue' = tickQueue ]_vars
    /\ (tickQueue # <<>> ~> tickQueue = <<>>)

\* C40 witness: the second of two releases after one press was published
\* without a click being scheduled.
C40_Witness ==
    /\ lastCall.op = "handleEvent"
    /\ Releases(emitted) = 2
    /\ Len(tickQueue) = 1

\* C40 witness: a scheduled click was published by a scheduling turn.
C40_ClickPublished ==
    /\ lastCall.op = "tick"
    /\ Clicks(emitted) = 1
    /\ tickQueue = <<>>
    /\ destroyed

PullAfterAbort == ByCall({"next"}) /\ seq.signal = "aborted"

C33_OneDataHandlerWhileEnabled ==
    /\ [](dataListeners = IF enabled THEN 1 ELSE 0)
    /\ [][ /\ (lastCall' = Call("enable", "ok", Null))
               => dataListeners' = dataListeners + 1
           /\ (lastCall' = Call("disable", "ok", Null))
               => dataListeners' = dataListeners - 1
           /\ (lastCall'.outcome = "noop")
               => dataListeners' = dataListeners ]_vars

\* A disable() that failed after detaching the handler.
C33_Witness ==
    /\ lastCall.op = "disable"
    /\ lastCall.outcome = "MouseError"
    /\ ~enabled
    /\ dataListeners = 0

\* C34: whenever an enable() or disable() call has returned or raised with
\* enabled false, the last protocol group the engine wrote is not the
\* protocol-enable group: every protocol-enable write has been followed by a
\* protocol-disable write, so the terminal is not left reporting the mouse.
C34_ReportingOnlyWhileEnabled ==
    (lastCall.op \in {"enable", "disable"} /\ ~enabled) => terminalMode # ProtocolOn

\* C35: while the engine is disabled nothing is published to subscribers: a
\* step that publishes an event is taken with enabled true, so a click
\* deferred from a release handled just before disable() is not published
\* until the next successful enable().
C35_NothingPublishedWhileDisabled ==
    [][ emitted' # <<>> => enabled ]_vars

\* C36: in every reachable state of a lazy sequence, a waiter is set only
\* while the event queue, the latest slot and the error queue are all empty;
\* the waiter is one resolve/reject pair, set and cleared together, and set
\* only while the consumer's pull is suspended; the queue is non-empty only
\* in queue mode and the latest slot only in latestOnly mode.
C36_WaiterMeansNothingBuffered ==
    /\ seq.resolveNext =>
         /\ seq.queue = <<>>
         /\ seq.latest = Null
         /\ seq.errorQueue = <<>>
         /\ seq.pos = "awaiting"
    /\ seq.resolveNext = seq.rejectNext
    /\ seq.queue # <<>> => ~seq.latestOnly
    /\ seq.latest # Null => seq.latestOnly

\* A pull that found nothing buffered on a sequence in latestOnly mode and
\* set the waiter.
C36_Witness ==
    /\ seq.resolveNext
    /\ seq.pos = "awaiting"
    /\ seq.latestOnly
    /\ lastCall.op = "next"

\* C37: a consumer suspended in a pull of eventsOf()/stream() does not stay
\* suspended forever once destroy() has been called on the engine: the
\* pending pull is eventually resolved or rejected.
C37_DestroySettlesPendingPull ==
    (lastCall.op = "destroy" /\ seq.pos = "awaiting") ~> (seq.pos # "awaiting")

\* C38: the sequence is subscribed from the moment eventsOf()/stream() is
\* called: a matching event published after the call and before the
\* consumer's first pull is buffered, and that first pull, made with the
\* cancellation signal not fired, delivers an event instead of suspending.
C38_SubscribedFromTheCall ==
    [][ (ByCall({"next"}) /\ seq.pos = "created" /\ arrivedSincePull # Null
           /\ seq.signal # "aborted")
          => yielded' # Null ]_vars

====
